---- MODULE Spec2Model ----
(***************************************************************************)
(* socketgen: the descriptor extractor (parser.analyzeDescriptor), the     *)
(* protoc binding step (generator.GenerateProtoc) and the gen command      *)
(* (cmd.genCmd.Run) modelled as state machines.                            *)
(*                                                                         *)
(* Strings the code inspects character by character (file names, type      *)
(* names) are sequences of one-character strings; strings the code only    *)
(* copies or compares for equality (message, oneof, field and package      *)
(* names, language tags) are TLA+ strings.                                 *)
(***************************************************************************)
EXTENDS Integers, Sequences, FiniteSets, TLC

VARIABLES
    fds,          \* parser: the File list of the FileDescriptorSet
    targetFile,   \* parser: the requested proto file name
    apc,          \* parser: "call" before analyzeDescriptor ran, "ret" after
    targetIdx,    \* parser: index in fds of targetFileDesc (0 = nil)
    ret,          \* parser: the returned *ParseResult (NilResult = nil)
    err,          \* parser: the returned error (NoError = nil)
    languages,    \* gen: the --lang flag
    withProtoc,   \* gen: the --protoc flag
    pc,           \* gen: position of genCmd.Run
    idx,          \* gen: position of the running range loop over languages
    protocRuns,   \* gen: languages protoc was executed for, in order
    bindings,     \* gen: languages whose protoc bindings were written
    protocErr,    \* gen: what GenerateProtoc returned
    emitted,      \* gen: emitter invocations, in order
    out,          \* gen: the per-language lines printed, in order
    nameIn,       \* naming: the identifier handed to the naming functions
    camelOut,     \* naming: what toCamelCase returned
    pascalOut,    \* naming: what toPascalCase returned
    npc,          \* naming: the functions that have returned
    slang,        \* serve: the language of the generated dispatcher
    spc,          \* serve: position of the serve loop
    pkt,          \* serve: the frame last read
    reads,        \* serve: calls of the stream's read so far
    readFailures, \* serve: how many of them failed
    reported,     \* serve: failures written to the diagnostic sink
    dres,         \* serve: how the last dispatch ended
    dcalls,       \* serve: handler methods the last dispatch invoked
    sresult       \* serve: what the serve loop passed to its caller

parserVars == <<fds, targetFile, apc, targetIdx, ret, err>>
genVars == <<languages, withProtoc, pc, idx, protocRuns, bindings, protocErr,
             emitted, out>>
namingVars == <<nameIn, camelOut, pascalOut, npc>>
serveVars == <<slang, spc, pkt, reads, readFailures, reported, dres, dcalls,
               sresult>>
vars == <<parserVars, genVars, namingVars, serveVars>>

-----------------------------------------------------------------------------
(* Bounds of the model. *)

MaxFiles == 2
MaxFields == 2
MaxLangs == 3
MaxNameLen == 4
MaxReads == 3

-----------------------------------------------------------------------------
(* Strings as character sequences. *)

SeqsUpTo(S, n) == UNION {[1..k -> S] : k \in 0..n}

\* strings.HasSuffix(s, suffix)
HasSuffix(s, suffix) ==
    /\ Len(s) >= Len(suffix)
    /\ SubSeq(s, Len(s) - Len(suffix) + 1, Len(s)) = suffix

\* strings.LastIndex(s, ch) for a one-character separator, 1-based; 0 for Go's -1
LastIndex(s, ch) ==
    IF \E i \in 1..Len(s) : s[i] = ch
    THEN CHOOSE i \in 1..Len(s) :
            /\ s[i] = ch
            /\ \A j \in (i + 1)..Len(s) : s[j] # ch
    ELSE 0

\* strings.TrimPrefix(s, prefix)
TrimPrefix(s, prefix) ==
    IF Len(s) >= Len(prefix) /\ SubSeq(s, 1, Len(prefix)) = prefix
    THEN SubSeq(s, Len(prefix) + 1, Len(s))
    ELSE s

\* path with its trailing slashes removed (first step of filepath.Base)
RECURSIVE StripTrailingSlashes(_)
StripTrailingSlashes(p) ==
    IF Len(p) > 0 /\ p[Len(p)] = "/"
    THEN StripTrailingSlashes(SubSeq(p, 1, Len(p) - 1))
    ELSE p

\* filepath.Base(path), slash-separated paths
Base(path) ==
    IF path = <<>> THEN <<".">>
    ELSE LET p == StripTrailingSlashes(path)
             q == SubSeq(p, LastIndex(p, "/") + 1, Len(p))
         IN  IF q = <<>> THEN <<"/">> ELSE q

-----------------------------------------------------------------------------
(* parser.analyzeDescriptor *)

NoError == "nil"
ErrNoFileDescriptors == "no file descriptors found"
ErrWrapperNotFound == "message 'GamePacket' not found"
ErrOneofNotFound == "'payload' oneof field not found in GamePacket"

NilResult == [nil |-> TRUE]

\* mutant: the declared name must equal the base name
NameMatchesExact(fd, targetBase) == fd.name = targetBase

\* line 79: the file's declared name ends with the requested base name
NameMatches(fd, targetBase) == HasSuffix(fd.name, targetBase)

\* lines 78-83: the range loop with its break, from position i on; the index
\* of the file assigned to targetFileDesc, 0 when it stays nil
RECURSIVE ScanFiles(_, _, _)
ScanFiles(files, targetBase, i) ==
    IF i > Len(files) THEN 0
    ELSE IF NameMatches(files[i], targetBase) THEN i
    ELSE ScanFiles(files, targetBase, i + 1)

\* lines 77-92: the index of targetFileDesc in files, 0 for the error return
SelectTargetFile(files, target) ==
    LET found == ScanFiles(files, Base(target), 1)
    IN  IF found # 0 THEN found
        ELSE IF Len(files) > 0 THEN Len(files)
        ELSE 0

\* line 102
IsWrapper(msg) == msg.name = "GamePacket"

\* mutant: falls back to the last message, as the file selection does
RECURSIVE FindGamePacketOrLast(_, _)
FindGamePacketOrLast(msgs, i) ==
    IF i > Len(msgs) THEN Len(msgs)
    ELSE IF msgs[i].name = "GamePacket" THEN i
    ELSE FindGamePacketOrLast(msgs, i + 1)

\* lines 100-106: the index of the message assigned to gamePacketMsg, 0 for nil
RECURSIVE FindGamePacket(_, _)
FindGamePacket(msgs, i) ==
    IF i > Len(msgs) THEN 0
    ELSE IF IsWrapper(msgs[i]) THEN i
    ELSE FindGamePacket(msgs, i + 1)

\* line 118
IsPayloadOneof(oneof) == oneof = "payload"

\* mutant: oneofIndex starts at 0 instead of -1
RECURSIVE FindPayloadOneofFromZero(_, _)
FindPayloadOneofFromZero(oneofs, i) ==
    IF i > Len(oneofs) THEN 0
    ELSE IF oneofs[i] = "payload" THEN i - 1
    ELSE FindPayloadOneofFromZero(oneofs, i + 1)

\* lines 116-122: oneofIndex (0-based as in the code), -1 when no oneof matches
RECURSIVE FindPayloadOneof(_, _)
FindPayloadOneof(oneofs, i) ==
    IF i > Len(oneofs) THEN -1
    ELSE IF IsPayloadOneof(oneofs[i]) THEN i - 1
    ELSE FindPayloadOneof(oneofs, i + 1)

\* mutant: cuts the type name at its first dot instead of its last
MakePayloadFirstDot(field) ==
    LET fullType == field.type_name
        dots == {i \in 1..Len(fullType) : fullType[i] = "."}
        firstDot == IF dots = {} THEN 0
                    ELSE CHOOSE i \in dots : \A j \in dots : i <= j
        typeName == IF firstDot # 0
                    THEN SubSeq(fullType, firstDot + 1, Len(fullType))
                    ELSE fullType
    IN  [Name |-> typeName,
         FieldName |-> field.name,
         FullName |-> TrimPrefix(fullType, <<".">>)]

\* lines 134-144: the PayloadMessage built from one member field
MakePayload(field) ==
    LET fullType == field.type_name
        lastDot == LastIndex(fullType, ".")
        typeName == IF lastDot # 0
                    THEN SubSeq(fullType, lastDot + 1, Len(fullType))
                    ELSE fullType
    IN  [Name |-> typeName,
         FieldName |-> field.name,
         FullName |-> TrimPrefix(fullType, <<".">>)]

\* mutant: reads the index without the nil check (GetOneofIndex is 0 for nil)
IsMemberNoNilCheck(field, oneofIndex) == field.oneof_index = oneofIndex

\* line 130: the field belongs to the oneof with index oneofIndex
IsMember(field, oneofIndex) ==
    field.has_oneof_index /\ field.oneof_index = oneofIndex

\* lines 129-146: the loop appending one PayloadMessage per member field
RECURSIVE CollectPayloads(_, _)
CollectPayloads(fields, oneofIndex) ==
    IF fields = <<>> THEN <<>>
    ELSE LET rest == CollectPayloads(Tail(fields), oneofIndex)
         IN  IF IsMember(Head(fields), oneofIndex)
             THEN <<MakePayload(Head(fields))>> \o rest
             ELSE rest

\* mutant: an empty payload list is turned into an error
analyzeDescriptorRejectEmpty(files, target) ==
    LET sel == SelectTargetFile(files, target)
        fd == files[sel]
        gp == FindGamePacket(fd.message_type, 1)
        msg == fd.message_type[gp]
        oneofIndex == FindPayloadOneof(msg.oneof_decl, 1)
    IN  IF sel = 0
        THEN [idx |-> 0, ret |-> NilResult, err |-> ErrNoFileDescriptors]
        ELSE IF gp = 0
        THEN [idx |-> sel, ret |-> NilResult, err |-> ErrWrapperNotFound]
        ELSE IF oneofIndex = -1
        THEN [idx |-> sel, ret |-> NilResult, err |-> ErrOneofNotFound]
        ELSE IF CollectPayloads(msg.field, oneofIndex) = <<>>
        THEN [idx |-> sel, ret |-> NilResult, err |-> "no payload variants"]
        ELSE [idx |-> sel,
              ret |-> [PackageName |-> fd.package,
                       Payloads |-> CollectPayloads(msg.field, oneofIndex)],
              err |-> NoError]

\* lines 69-149: [idx, ret, err] of analyzeDescriptor(fds, targetFile)
analyzeDescriptor(files, target) ==
    LET sel == SelectTargetFile(files, target)
    IN  IF sel = 0
        THEN [idx |-> 0, ret |-> NilResult, err |-> ErrNoFileDescriptors]
        ELSE
        LET fd == files[sel]
            gp == FindGamePacket(fd.message_type, 1)
        IN  IF gp = 0
            THEN [idx |-> sel, ret |-> NilResult, err |-> ErrWrapperNotFound]
            ELSE
            LET msg == fd.message_type[gp]
                oneofIndex == FindPayloadOneof(msg.oneof_decl, 1)
            IN  IF oneofIndex = -1
                THEN [idx |-> sel, ret |-> NilResult, err |-> ErrOneofNotFound]
                ELSE [idx |-> sel,
                      ret |-> [PackageName |-> fd.package,
                               Payloads |-> CollectPayloads(msg.field, oneofIndex)],
                      err |-> NoError]

-----------------------------------------------------------------------------
(* Descriptor trees the extractor is run on. *)

PacketProto == <<"p", "a", "c", "k", "e", "t", ".", "p", "r", "o", "t", "o">>

TypeHeader == <<".", "p", "a", "c", "k", "e", "t", ".", "H", "e", "a", "d", "e", "r">>
TypeLoginReq ==
    <<".", "p", "a", "c", "k", "e", "t", ".", "L", "o", "g", "i", "n", "R", "e", "q">>
TypeChatMsg == <<"C", "h", "a", "t", "M", "s", "g">>
TypeNested == <<".", ".", "a", ".", "B", ".">>
TypeScalar == <<>>

\* descriptorpb.FieldDescriptorProto: name, type_name, oneof_index (optional)
FieldKinds ==
    { [name |-> "login_req", type_name |-> TypeLoginReq],
      [name |-> "chat_msg", type_name |-> TypeChatMsg],
      [name |-> "odd", type_name |-> TypeNested],
      [name |-> "count", type_name |-> TypeScalar] }

OneofLists ==
    { <<>>, <<"payload">>, <<"other">>,
      <<"other", "payload">>, <<"payload", "other">> }

Fields ==
    { [name |-> k.name, type_name |-> k.type_name,
       has_oneof_index |-> FALSE, oneof_index |-> 0] : k \in FieldKinds }
    \cup
    { [name |-> k.name, type_name |-> k.type_name,
       has_oneof_index |-> TRUE, oneof_index |-> i] :
          k \in FieldKinds, i \in {0, 1} }

\* descriptorpb.DescriptorProto: name, field, oneof_decl
Messages ==
    [name : {"GamePacket", "Header"},
     oneof_decl : OneofLists,
     field : SeqsUpTo(Fields, MaxFields)]

Fld(name, type, has, i) ==
    [name |-> name, type_name |-> type, has_oneof_index |-> has, oneof_index |-> i]

\* the wrapper of the starter template written by "socketgen init"
StdGamePacket ==
    [name |-> "GamePacket",
     oneof_decl |-> <<"payload">>,
     field |-> << Fld("header", TypeHeader, FALSE, 0),
                  Fld("login_req", TypeLoginReq, TRUE, 0),
                  Fld("chat_msg", TypeChatMsg, TRUE, 0) >>]

HeaderMsg == [name |-> "Header", oneof_decl |-> <<>>, field |-> <<>>]

\* descriptorpb.FileDescriptorProto: name, package, message_type
File(name, package, msgs) ==
    [name |-> name, package |-> package, message_type |-> msgs]

\* message lists of the file under extraction: a candidate wrapper alone,
\* after the Header message, or before a second GamePacket
MessageLists ==
    {<<>>, <<HeaderMsg>>}
    \cup {<<m>> : m \in Messages}
    \cup {<<HeaderMsg, m>> : m \in Messages}
    \cup {<<m, StdGamePacket>> : m \in Messages}

\* declared file names: the requested file, the same under a directory, a
\* longer base name with the same suffix, an import, a name ending in "."
FileNames ==
    { PacketProto,
      <<"d", "/">> \o PacketProto,
      <<"x">> \o PacketProto,
      <<"i", ".", "p">>,
      <<"e", ".">> }

\* requested file names handed to analyzeDescriptor
TargetFiles ==
    { PacketProto,
      <<".", "/">> \o PacketProto,
      PacketProto \o <<"/">>,
      <<"n", "o">>,
      <<>> }

\* files of a compilation closure: imports with or without the wrapper
ClosureFiles ==
    { File(n, p, ms) :
        n \in FileNames, p \in {"packet", ""},
        ms \in {<<>>, <<HeaderMsg, StdGamePacket>>} }

\* trees whose files vary (target-file selection)
ClosureTrees == SeqsUpTo(ClosureFiles, MaxFiles)

\* single-file trees whose wrapper varies (extraction)
WrapperTrees == {<<File(PacketProto, "packet", ms)>> : ms \in MessageLists}

-----------------------------------------------------------------------------
(* The parser called directly on a descriptor tree. *)

GenIdle ==
    /\ languages = <<>>
    /\ withProtoc = FALSE
    /\ pc = "idle"
    /\ idx = 0
    /\ protocRuns = <<>>
    /\ bindings = {}
    /\ protocErr = NoError
    /\ emitted = <<>>
    /\ out = <<>>

\* a frame: whether its bytes decode, and the oneof member they populate
NoPacket == [decodes |-> FALSE, variant |-> "none"]

ServeIdle ==
    /\ slang = "none"
    /\ spc = "idle"
    /\ pkt = NoPacket
    /\ reads = 0
    /\ readFailures = 0
    /\ reported = 0
    /\ dres = "none"
    /\ dcalls = <<>>
    /\ sresult = "none"

NamingIdle ==
    /\ nameIn = <<>>
    /\ camelOut = <<>>
    /\ pascalOut = <<>>
    /\ npc = {}

InitAnalyze ==
    /\ NamingIdle
    /\ ServeIdle
    /\ \/ fds \in ClosureTrees /\ targetFile \in TargetFiles
       \/ fds \in WrapperTrees /\ targetFile = PacketProto
    /\ apc = "call"
    /\ targetIdx = 0
    /\ ret = NilResult
    /\ err = NoError
    /\ GenIdle

\* one call of analyzeDescriptor(fds, targetFile)
Analyze ==
    /\ apc = "call"
    /\ LET r == analyzeDescriptor(fds, targetFile)
       IN  /\ targetIdx' = r.idx
           /\ ret' = r.ret
           /\ err' = r.err
    /\ apc' = "ret"
    /\ UNCHANGED <<serveVars, namingVars, fds, targetFile, genVars>>

NextAnalyze == Analyze

SpecAnalyze == InitAnalyze /\ [][NextAnalyze]_vars

-----------------------------------------------------------------------------
(* cmd gen: genCmd.Run, with generator.GenerateProtoc and parser.Parse as  *)
(* the steps it calls.                                                     *)

ErrProtocMissing == "protoc is not installed or not in PATH"
ErrProtocRun == "failed to run protoc"
ErrReadDescriptor == "failed to read descriptor file"
ErrUnmarshal == "failed to unmarshal descriptor set"
ErrMkdir == "failed to create output directory"

\* the error GenerateProtoc returns when protoc fails for lang
ErrProtocFor(lang) == "failed to generate protobuf code for " \o lang

\* mutant: the switch of the first release, with four languages
EmitterFirstParty(lang) ==
    CASE lang = "go" -> "GenerateGo"
      [] lang = "ts" -> "GenerateTS"
      [] lang = "python" -> "GeneratePython"
      [] lang = "csharp" -> "GenerateCSharp"
      [] OTHER -> "default"

\* the switch of genCmd.Run: the generator function called for a tag
Emitter(lang) ==
    CASE lang = "go" -> "GenerateGo"
      [] lang = "ts" -> "GenerateTS"
      [] lang = "python" -> "GeneratePython"
      [] lang = "csharp" -> "GenerateCSharp"
      [] lang = "dart" -> "GenerateDart"
      [] lang = "php" -> "GeneratePHP"
      [] lang = "ruby" -> "GenerateRuby"
      [] lang = "kotlin" -> "GenerateKotlin"
      [] lang = "java" -> "GenerateJava"
      [] OTHER -> "default"

\* the switch of GenerateProtoc: the protoc output flag for a tag
ProtocFlag(lang) ==
    CASE lang = "go" -> "--go_out"
      [] lang = "python" -> "--python_out"
      [] lang = "csharp" -> "--csharp_out"
      [] lang = "ts" -> "--ts_proto_out"
      [] OTHER -> "default"

\* values of the --lang flag: the documented tags and two others
Tags ==
    {"go", "ts", "python", "csharp", "dart", "php", "ruby", "kotlin", "java",
     "rust", "Go"}

\* what protoc makes of the packet.proto on disk
GenTrees ==
    { <<File(PacketProto, "packet", <<HeaderMsg, StdGamePacket>>)>>,
      <<File(PacketProto, "packet", <<HeaderMsg>>)>>,
      <<File(PacketProto, "packet",
             <<[StdGamePacket EXCEPT !.oneof_decl = <<"other">>]>>)>> }

InitGen ==
    /\ NamingIdle
    /\ ServeIdle
    /\ fds \in GenTrees
    /\ targetFile = PacketProto
    /\ apc = "call"
    /\ targetIdx = 0
    /\ ret = NilResult
    /\ err = NoError
    /\ languages \in SeqsUpTo(Tags, MaxLangs)
    /\ withProtoc \in BOOLEAN
    /\ pc = "start"
    /\ idx = 0
    /\ protocRuns = <<>>
    /\ bindings = {}
    /\ protocErr = NoError
    /\ emitted = <<>>
    /\ out = <<>>

\* genCmd.Run up to the withProtoc test
GenStart ==
    /\ pc = "start"
    /\ pc' = IF withProtoc THEN "protoc_mkdir" ELSE "parse"
    /\ UNCHANGED <<serveVars, namingVars, parserVars, languages, withProtoc, idx, protocRuns, bindings,
                   protocErr, emitted, out>>

\* GenerateProtoc: os.MkdirAll, which may fail; the failure is returned and
\* genCmd.Run prints a warning and goes on
ProtocMkdir ==
    /\ pc = "protoc_mkdir"
    /\ \/ /\ protocErr' = ErrMkdir
          /\ pc' = "parse"
          /\ idx' = idx
       \/ /\ protocErr' = protocErr
          /\ pc' = "protoc_loop"
          /\ idx' = 1
    /\ UNCHANGED <<serveVars, namingVars, parserVars, languages, withProtoc, protocRuns, bindings,
                   emitted, out>>

\* GenerateProtoc: the loop is over and nil is returned
ProtocDone ==
    /\ pc = "protoc_loop"
    /\ idx > Len(languages)
    /\ pc' = "parse"
    /\ UNCHANGED <<serveVars, namingVars, parserVars, languages, withProtoc, idx, protocRuns, bindings,
                   protocErr, emitted, out>>

\* GenerateProtoc: one iteration for a tag without a protoc flag
ProtocSkip ==
    /\ pc = "protoc_loop"
    /\ idx <= Len(languages)
    /\ ProtocFlag(languages[idx]) = "default"
    /\ idx' = idx + 1
    /\ UNCHANGED <<serveVars, namingVars, parserVars, languages, withProtoc, pc, protocRuns, bindings,
                   protocErr, emitted, out>>

\* mutant: a protoc failure is remembered and the loop goes on
ProtocRunContinue ==
    /\ pc = "protoc_loop"
    /\ idx <= Len(languages)
    /\ ProtocFlag(languages[idx]) # "default"
    /\ protocRuns' = Append(protocRuns, languages[idx])
    /\ \/ /\ bindings' = bindings \cup {languages[idx]}
          /\ UNCHANGED protocErr
       \/ /\ protocErr' = ErrProtocFor(languages[idx])
          /\ UNCHANGED bindings
    /\ idx' = idx + 1
    /\ UNCHANGED <<serveVars, namingVars, parserVars, languages, withProtoc, pc,
                   emitted, out>>

\* mutant: a protoc failure ends the command
ProtocRunFatal ==
    /\ pc = "protoc_loop"
    /\ idx <= Len(languages)
    /\ ProtocFlag(languages[idx]) # "default"
    /\ protocRuns' = Append(protocRuns, languages[idx])
    /\ \/ /\ bindings' = bindings \cup {languages[idx]}
          /\ idx' = idx + 1
          /\ UNCHANGED <<pc, protocErr>>
       \/ /\ protocErr' = ErrProtocFor(languages[idx])
          /\ pc' = "done"
          /\ UNCHANGED <<bindings, idx>>
    /\ UNCHANGED <<serveVars, namingVars, parserVars, languages, withProtoc,
                   emitted, out>>

\* GenerateProtoc: one iteration running protoc, which succeeds or fails
ProtocRun ==
    /\ pc = "protoc_loop"
    /\ idx <= Len(languages)
    /\ ProtocFlag(languages[idx]) # "default"
    /\ protocRuns' = Append(protocRuns, languages[idx])
    /\ \/ /\ bindings' = bindings \cup {languages[idx]}
          /\ idx' = idx + 1
          /\ UNCHANGED <<pc, protocErr>>
       \/ /\ protocErr' = ErrProtocFor(languages[idx])
          /\ pc' = "parse"
          /\ UNCHANGED <<bindings, idx>>
    /\ UNCHANGED <<serveVars, namingVars, parserVars, languages, withProtoc, emitted, out>>

\* parser.Parse fails before the descriptor is analysed (protoc missing,
\* protoc failing, the descriptor file unreadable or malformed); genCmd.Run
\* prints the error and returns
ParseFails ==
    /\ pc = "parse"
    /\ err' \in {ErrProtocMissing, ErrProtocRun, ErrReadDescriptor, ErrUnmarshal}
    /\ ret' = NilResult
    /\ pc' = "done"
    /\ UNCHANGED <<serveVars, namingVars, fds, targetFile, apc, targetIdx, languages, withProtoc, idx,
                   protocRuns, bindings, protocErr, emitted, out>>

\* mutant: the return after the error message is missing
ParseAnalyzesNoReturn ==
    /\ pc = "parse"
    /\ LET r == analyzeDescriptor(fds, targetFile)
       IN  /\ targetIdx' = r.idx
           /\ ret' = r.ret
           /\ err' = r.err
    /\ pc' = "emit"
    /\ apc' = "ret"
    /\ idx' = 1
    /\ UNCHANGED <<serveVars, namingVars, fds, targetFile, languages, withProtoc, protocRuns, bindings,
                   protocErr, emitted, out>>

\* parser.Parse reaches analyzeDescriptor(&fileDescSet, protoFile); on an
\* error genCmd.Run prints it and returns, otherwise it enters the loop
ParseAnalyzes ==
    /\ pc = "parse"
    /\ LET r == analyzeDescriptor(fds, targetFile)
       IN  /\ targetIdx' = r.idx
           /\ ret' = r.ret
           /\ err' = r.err
           /\ pc' = IF r.err # NoError THEN "done" ELSE "emit"
    /\ apc' = "ret"
    /\ idx' = 1
    /\ UNCHANGED <<serveVars, namingVars, fds, targetFile, languages, withProtoc, protocRuns, bindings,
                   protocErr, emitted, out>>

\* the line genCmd.Run prints after a generator returned
OutcomeLine(lang, failed) ==
    [lang |-> lang, line |-> IF failed THEN "Error generating" ELSE "Successfully generated"]

\* mutant: a generator's error ends the loop
EmitKnownAbortOnError ==
    /\ pc = "emit"
    /\ idx <= Len(languages)
    /\ Emitter(languages[idx]) # "default"
    /\ emitted' = Append(emitted, [fn |-> Emitter(languages[idx]),
                                   lang |-> languages[idx],
                                   model |-> ret])
    /\ \E failed \in BOOLEAN :
           /\ out' = Append(out, OutcomeLine(languages[idx], failed))
           /\ pc' = IF failed THEN "done" ELSE pc
    /\ idx' = idx + 1
    /\ UNCHANGED <<serveVars, namingVars, parserVars, languages, withProtoc, protocRuns, bindings,
                   protocErr>>

\* one iteration of the loop for a tag of the switch: the generator is called
\* with result and succeeds or fails
EmitKnown ==
    /\ pc = "emit"
    /\ idx <= Len(languages)
    /\ Emitter(languages[idx]) # "default"
    /\ emitted' = Append(emitted, [fn |-> Emitter(languages[idx]),
                                   lang |-> languages[idx],
                                   model |-> ret])
    /\ \E failed \in BOOLEAN :
           out' = Append(out, OutcomeLine(languages[idx], failed))
    /\ idx' = idx + 1
    /\ UNCHANGED <<serveVars, namingVars, parserVars, languages, withProtoc, pc, protocRuns, bindings,
                   protocErr>>

\* mutant: break instead of continue
EmitDefaultBreak ==
    /\ pc = "emit"
    /\ idx <= Len(languages)
    /\ Emitter(languages[idx]) = "default"
    /\ out' = Append(out, [lang |-> languages[idx], line |-> "not supported yet"])
    /\ idx' = idx + 1
    /\ pc' = "done"
    /\ UNCHANGED <<serveVars, namingVars, parserVars, languages, withProtoc, protocRuns, bindings,
                   protocErr, emitted>>

\* one iteration of the loop for any other tag: a warning, then continue
EmitDefault ==
    /\ pc = "emit"
    /\ idx <= Len(languages)
    /\ Emitter(languages[idx]) = "default"
    /\ out' = Append(out, [lang |-> languages[idx], line |-> "not supported yet"])
    /\ idx' = idx + 1
    /\ UNCHANGED <<serveVars, namingVars, parserVars, languages, withProtoc, pc, protocRuns, bindings,
                   protocErr, emitted>>

\* the loop is over and genCmd.Run returns
EmitDone ==
    /\ pc = "emit"
    /\ idx > Len(languages)
    /\ pc' = "done"
    /\ UNCHANGED <<serveVars, namingVars, parserVars, languages, withProtoc, idx, protocRuns, bindings,
                   protocErr, emitted, out>>

Next ==
    \/ GenStart
    \/ ProtocMkdir
    \/ ProtocDone
    \/ ProtocSkip
    \/ ProtocRun
    \/ ParseFails
    \/ ParseAnalyzes
    \/ EmitKnown
    \/ EmitDefault
    \/ EmitDone

Spec == InitGen /\ [][Next]_vars

-----------------------------------------------------------------------------
(* What the claims about extraction speak of, stated on the descriptor     *)
(* tree itself.                                                            *)

Returned == apc = "ret"
Succeeded == Returned /\ err = NoError /\ ret # NilResult
Failed(e) == Returned /\ err = e /\ ret = NilResult

Min(S) == CHOOSE x \in S : \A y \in S : x <= y

\* positions of the files whose declared name is some prefix followed by the
\* base name of the requested file
BaseOfTarget ==
    LET cut == {n \in 0..Len(targetFile) :
                  \A m \in (n + 1)..Len(targetFile) : targetFile[m] = "/"}
        end == Min(cut)
        starts == {n \in 0..end : \A m \in (n + 1)..end : targetFile[m] # "/"}
        from == Min(starts)
    IN  IF targetFile = <<>> THEN <<".">>
        ELSE IF end = 0 THEN <<"/">>
        ELSE [k \in 1..(end - from) |-> targetFile[from + k]]

Matching ==
    {i \in 1..Len(fds) :
        \E pre \in 0..Len(fds[i].name) :
            /\ Len(fds[i].name) = pre + Len(BaseOfTarget)
            /\ \A k \in 1..Len(BaseOfTarget) :
                   fds[i].name[pre + k] = BaseOfTarget[k]}

\* the file the selection rule of the claim designates (0: none)
ExpectedFile ==
    IF Matching # {} THEN Min(Matching)
    ELSE IF fds # <<>> THEN Len(fds)
    ELSE 0

TargetMsgs == fds[targetIdx].message_type
WrapperPos == {i \in 1..Len(TargetMsgs) : TargetMsgs[i].name = "GamePacket"}
HasWrapper == targetIdx > 0 /\ WrapperPos # {}
Wrapper == TargetMsgs[Min(WrapperPos)]
PayloadPos == {i \in 1..Len(Wrapper.oneof_decl) : Wrapper.oneof_decl[i] = "payload"}
HasPayloadOneof == HasWrapper /\ PayloadPos # {}

\* positions of the member fields of the payload oneof, and the place of
\* position i among them
MemberPos ==
    {i \in 1..Len(Wrapper.field) :
        /\ Wrapper.field[i].has_oneof_index
        /\ Wrapper.field[i].oneof_index + 1 = Min(PayloadPos)}
Rank(i) == Cardinality({j \in MemberPos : j <= i})

\* C1: with a GamePacket whose payload oneof has k >= 1 member fields,
\* extraction returns a model with exactly k payloads, the j-th of them made
\* from the j-th member field in declaration order; no other field appears.
C1_VariantsInOrder ==
    (Returned /\ HasPayloadOneof /\ MemberPos # {}) =>
        /\ Succeeded
        /\ Len(ret.Payloads) = Cardinality(MemberPos)
        /\ \A i \in MemberPos :
               /\ ret.Payloads[Rank(i)].FieldName = Wrapper.field[i].name
               /\ Len(ret.Payloads[Rank(i)].FullName)
                      <= Len(Wrapper.field[i].type_name)
               /\ HasSuffix(Wrapper.field[i].type_name,
                            ret.Payloads[Rank(i)].Name)

\* a run with two members separated from a field of another oneof and
\* preceded by a field outside any oneof
C1_Witness ==
    /\ Succeeded
    /\ HasPayloadOneof
    /\ Cardinality(MemberPos) >= 2
    /\ \E i \in 1..Len(Wrapper.field) : ~Wrapper.field[i].has_oneof_index
    /\ Len(ret.Payloads) = 2
    /\ ret.Payloads[1].FieldName # ret.Payloads[2].FieldName

\* C2: when no top-level message of the target file is named GamePacket,
\* extraction returns nil and the wrapper-not-found error.
C2_WrapperNotFound ==
    (Returned /\ targetIdx > 0 /\ WrapperPos = {}) => Failed(ErrWrapperNotFound)

C2_Witness ==
    /\ Failed(ErrWrapperNotFound)
    /\ targetIdx > 0
    /\ TargetMsgs # <<>>
    /\ \E i \in 1..Len(TargetMsgs) : TargetMsgs[i].oneof_decl # <<>>

\* C3: when GamePacket exists and declares no oneof named payload, extraction
\* returns nil and the oneof-not-found error, which is not the
\* wrapper-not-found error, whatever oneofs its fields belong to.
C3_OneofNotFound ==
    (Returned /\ HasWrapper /\ PayloadPos = {}) =>
        /\ Failed(ErrOneofNotFound)
        /\ err # ErrWrapperNotFound

C3_Witness ==
    /\ Failed(ErrOneofNotFound)
    /\ HasWrapper
    /\ Wrapper.oneof_decl = <<"other">>
    /\ \E i \in 1..Len(Wrapper.field) :
           Wrapper.field[i].has_oneof_index /\ Wrapper.field[i].oneof_index = 0

\* C4 as claimed: a successful extraction never has an empty variant list.
C4_NonEmptyOnSuccess ==
    Succeeded => ret.Payloads # <<>>

\* C4 as the code has it: extraction of a GamePacket with a payload oneof
\* always succeeds, with as many payloads as the oneof has member fields;
\* with no member field the model has an empty Payloads list and no error.
C4_EmptyVariantListReturned ==
    (Returned /\ HasPayloadOneof) =>
        /\ Succeeded
        /\ Len(ret.Payloads) = Cardinality(MemberPos)
        /\ (MemberPos = {} => ret.Payloads = <<>>)

C4_Witness ==
    /\ Succeeded
    /\ HasPayloadOneof
    /\ MemberPos = {}
    /\ Wrapper.field # <<>>
    /\ ret.Payloads = <<>>

\* C9: the target file is the first file in tree order whose declared name
\* ends with the base name of the requested file; without such a file it is
\* the last file of the tree; with no file at all extraction fails with an
\* error and no model.
C9_TargetFileSelection ==
    Returned =>
        /\ targetIdx = ExpectedFile
        /\ (fds = <<>> => Failed(ErrNoFileDescriptors))
        /\ (Succeeded => ret.PackageName = fds[ExpectedFile].package)
        /\ (fds # <<>> /\ err # NoError =>
               \/ /\ err = ErrWrapperNotFound
                  /\ \A i \in 1..Len(fds[ExpectedFile].message_type) :
                         fds[ExpectedFile].message_type[i].name # "GamePacket"
               \/ err = ErrOneofNotFound)

\* two files match, the first of them is not the first file of the tree and
\* differs from the second in package
C9_Witness ==
    /\ Succeeded
    /\ Cardinality(Matching) >= 2
    /\ fds[Min(Matching)].package # fds[Len(fds)].package
    /\ fds[Min(Matching)].name # targetFile
    /\ ret.PackageName = fds[Min(Matching)].package

\* the fallback: no file matches and the last one is used
C9_WitnessFallback ==
    /\ Succeeded
    /\ Matching = {}
    /\ Len(fds) >= 2
    /\ fds[1].package # fds[Len(fds)].package
    /\ fds[1].message_type = <<>>

\* C10: each payload's Name is the part of the field's type name after its
\* last dot (all of it without a dot), FullName is the type name less one
\* leading dot, FieldName is the field's name; login_req of type
\* .packet.LoginReq gives {LoginReq, login_req, packet.LoginReq}.
C10_PayloadNames ==
    (Succeeded /\ HasPayloadOneof) =>
        \A i \in MemberPos :
            LET f == Wrapper.field[i]
                t == f.type_name
                p == ret.Payloads[Rank(i)]
            IN  /\ p.FieldName = f.name
                /\ \A k \in 1..Len(p.Name) : p.Name[k] # "."
                /\ \/ p.Name = t
                   \/ /\ Len(t) > Len(p.Name)
                      /\ t[Len(t) - Len(p.Name)] = "."
                      /\ \A k \in 1..Len(p.Name) :
                             p.Name[k] = t[Len(t) - Len(p.Name) + k]
                /\ IF t # <<>> /\ t[1] = "."
                   THEN /\ Len(p.FullName) = Len(t) - 1
                        /\ \A k \in 1..Len(p.FullName) : p.FullName[k] = t[k + 1]
                   ELSE p.FullName = t
                /\ (f.name = "login_req" /\ t = TypeLoginReq =>
                       p = [Name |-> <<"L", "o", "g", "i", "n", "R", "e", "q">>,
                            FieldName |-> "login_req",
                            FullName |-> <<"p", "a", "c", "k", "e", "t", ".",
                                           "L", "o", "g", "i", "n", "R", "e", "q">>])

\* payloads from a type with two leading dots and a trailing dot, and from
\* the template's login_req
C10_Witness ==
    /\ Succeeded
    /\ Len(ret.Payloads) = 2
    /\ ret.Payloads[1].FullName = <<".", "a", ".", "B", ".">>
    /\ ret.Payloads[1].Name = <<>>
    /\ ret.Payloads[2].FieldName = "login_req"
    /\ ret.Payloads[2].Name = <<"L", "o", "g", "i", "n", "R", "e", "q">>

-----------------------------------------------------------------------------
(* What the claims about the gen command speak of.                         *)

Finished == pc = "done"

\* the declared target-language tags
DeclaredTags ==
    {"go", "ts", "python", "csharp", "dart", "php", "ruby", "kotlin", "java"}

\* the generator each declared tag stands for
OwnEmitter ==
    [t \in DeclaredTags |->
        CASE t = "go" -> "GenerateGo"
          [] t = "ts" -> "GenerateTS"
          [] t = "python" -> "GeneratePython"
          [] t = "csharp" -> "GenerateCSharp"
          [] t = "dart" -> "GenerateDart"
          [] t = "php" -> "GeneratePHP"
          [] t = "ruby" -> "GenerateRuby"
          [] t = "kotlin" -> "GenerateKotlin"
          [] t = "java" -> "GenerateJava"]

\* positions of the request holding a declared tag, and how many of them lie
\* at or before position i
DeclaredPos == {i \in 1..Len(languages) : languages[i] \in DeclaredTags}
DeclaredUpTo(i) == Cardinality({j \in DeclaredPos : j <= i})

\* C5: when Parse returned an error no generator has been or will be called
\* and no per-language line is printed; every generator call happens after a
\* successful extraction and is handed its model.
C5_NoEmissionAfterParseError ==
    /\ (err # NoError => emitted = <<>> /\ out = <<>>)
    /\ (Finished /\ err # NoError => ret = NilResult)
    /\ (emitted # <<>> => Succeeded)

C5_Witness ==
    /\ Finished
    /\ err = ErrWrapperNotFound
    /\ withProtoc
    /\ Len(languages) = 2
    /\ DeclaredPos = {1, 2}
    /\ emitted = <<>>

\* C6: for a request with exactly one undeclared tag, when the command has
\* finished after a successful extraction every position of the request has
\* its line, the undeclared tag's line alone is the not-supported one, and
\* the generators called are those of the declared tags, once per position,
\* in request order, each with the extracted model.
C6_PartialFailure ==
    (Finished /\ Succeeded /\ Cardinality(DeclaredPos) + 1 = Len(languages)) =>
        /\ Len(out) = Len(languages)
        /\ \A i \in 1..Len(languages) :
               /\ out[i].lang = languages[i]
               /\ (out[i].line = "not supported yet") <=> (i \notin DeclaredPos)
        /\ Len(emitted) = Len(languages) - 1
        /\ \A i \in DeclaredPos :
               /\ emitted[DeclaredUpTo(i)].lang = languages[i]
               /\ emitted[DeclaredUpTo(i)].fn = OwnEmitter[languages[i]]
               /\ emitted[DeclaredUpTo(i)].model = ret

\* the undeclared tag stands between two declared ones
C6_Witness ==
    /\ Finished
    /\ Succeeded
    /\ Len(languages) = 3
    /\ DeclaredPos = {1, 3}
    /\ Len(emitted) = 2
    /\ out[2].line = "not supported yet"

\* C7: a generator's error does not end the loop: while the loop runs and
\* when it is over, every position passed has its own line, whatever lines
\* came before, the generators of all declared tags passed were called in
\* request order, and the command finishes only past the last position.
C7_NoAbortOnEmitterError ==
    (pc = "emit" \/ (Finished /\ Succeeded)) =>
        /\ Len(out) = idx - 1
        /\ \A i \in 1..Len(out) : out[i].lang = languages[i]
        /\ Len(emitted) = DeclaredUpTo(idx - 1)
        /\ \A i \in DeclaredPos :
               i < idx =>
                   /\ emitted[DeclaredUpTo(i)].lang = languages[i]
                   /\ out[i].line \in {"Error generating", "Successfully generated"}
        /\ (Finished => idx = Len(languages) + 1)

\* the first generator failed and the two after it ran, the last one failing
C7_Witness ==
    /\ Finished
    /\ Len(languages) = 3
    /\ Len(emitted) = 3
    /\ out[1].line = "Error generating"
    /\ out[2].line = "Successfully generated"
    /\ out[3].line = "Error generating"
    /\ emitted[2].lang # emitted[3].lang

\* C8: a generator is called for a tag exactly when the tag is one of the
\* nine declared ones, and it is that tag's own generator; any other tag
\* gets the not-supported line and no generator call.
C8_DeclaredTags ==
    /\ \A k \in 1..Len(emitted) :
           /\ emitted[k].lang \in DeclaredTags
           /\ emitted[k].fn = OwnEmitter[emitted[k].lang]
    /\ \A i \in 1..Len(out) :
           /\ out[i].lang = languages[i]
           /\ (out[i].line = "not supported yet") <=> (languages[i] \notin DeclaredTags)
    /\ Len(emitted) = Cardinality({i \in DeclaredPos : i <= Len(out)})

C8_Witness ==
    /\ Finished
    /\ languages = <<"Go", "dart", "java">>
    /\ Len(emitted) = 2
    /\ emitted[1].fn = "GenerateDart"
    /\ emitted[2].fn = "GenerateJava"
    /\ out[1].line = "not supported yet"

-----------------------------------------------------------------------------
(* generator: toCamelCase and toPascalCase.  Identifiers are sequences of  *)
(* one-character strings; every character of the alphabet is ASCII, so the *)
(* byte index i of "for i, r := range s" is the position of r less one.    *)

\* characters of identifiers: lower-case letters, an upper-case letter, the
\* underscore, a digit
NameChars == {"a", "b", "A", "_", "1"}

\* unicode.ToUpper on the alphabet and on what it maps to
ToUpper(r) ==
    CASE r = "a" -> "A"
      [] r = "b" -> "B"
      [] OTHER -> r

\* unicode.ToLower on the alphabet and on what it maps to
ToLower(r) ==
    CASE r = "A" -> "a"
      [] r = "B" -> "b"
      [] OTHER -> r

\* mutant: an underscore flips nextUpper instead of setting it
RECURSIVE CamelFromToggle(_, _, _)
CamelFromToggle(s, i, nextUpper) ==
    IF i > Len(s) THEN <<>>
    ELSE IF s[i] = "_" THEN CamelFromToggle(s, i + 1, ~nextUpper)
    ELSE IF i = 1 THEN <<ToLower(s[i])>> \o CamelFromToggle(s, i + 1, nextUpper)
    ELSE IF nextUpper THEN <<ToUpper(s[i])>> \o CamelFromToggle(s, i + 1, FALSE)
    ELSE <<s[i]>> \o CamelFromToggle(s, i + 1, nextUpper)

\* mutant: characters that are not capitalised are lower-cased
RECURSIVE CamelFromFoldRest(_, _, _)
CamelFromFoldRest(s, i, nextUpper) ==
    IF i > Len(s) THEN <<>>
    ELSE IF s[i] = "_" THEN CamelFromFoldRest(s, i + 1, TRUE)
    ELSE IF i = 1 THEN <<ToLower(s[i])>> \o CamelFromFoldRest(s, i + 1, nextUpper)
    ELSE IF nextUpper THEN <<ToUpper(s[i])>> \o CamelFromFoldRest(s, i + 1, FALSE)
    ELSE <<ToLower(s[i])>> \o CamelFromFoldRest(s, i + 1, nextUpper)

\* utils.go lines 14-27: the loop of toCamelCase from position i (1-based)
\* on, with the value nextUpper has there; what it writes to result
RECURSIVE CamelFrom(_, _, _)
CamelFrom(s, i, nextUpper) ==
    IF i > Len(s) THEN <<>>
    ELSE IF s[i] = "_" THEN CamelFrom(s, i + 1, TRUE)
    ELSE IF i = 1 THEN <<ToLower(s[i])>> \o CamelFrom(s, i + 1, nextUpper)
    ELSE IF nextUpper THEN <<ToUpper(s[i])>> \o CamelFrom(s, i + 1, FALSE)
    ELSE <<s[i]>> \o CamelFrom(s, i + 1, nextUpper)

\* utils.go lines 8-29
toCamelCase(s) == CamelFrom(s, 1, FALSE)

\* mutant: nextUpper is never cleared
RECURSIVE PascalFromNoReset(_, _, _)
PascalFromNoReset(s, i, nextUpper) ==
    IF i > Len(s) THEN <<>>
    ELSE IF s[i] = "_" THEN PascalFromNoReset(s, i + 1, TRUE)
    ELSE IF nextUpper THEN <<ToUpper(s[i])>> \o PascalFromNoReset(s, i + 1, TRUE)
    ELSE <<s[i]>> \o PascalFromNoReset(s, i + 1, nextUpper)

\* utils.go lines 37-48: the loop of toPascalCase
RECURSIVE PascalFrom(_, _, _)
PascalFrom(s, i, nextUpper) ==
    IF i > Len(s) THEN <<>>
    ELSE IF s[i] = "_" THEN PascalFrom(s, i + 1, TRUE)
    ELSE IF nextUpper THEN <<ToUpper(s[i])>> \o PascalFrom(s, i + 1, FALSE)
    ELSE <<s[i]>> \o PascalFrom(s, i + 1, nextUpper)

\* utils.go lines 31-50
toPascalCase(s) == PascalFrom(s, 1, TRUE)

ParserIdle ==
    /\ fds = <<>>
    /\ targetFile = <<>>
    /\ apc = "idle"
    /\ targetIdx = 0
    /\ ret = NilResult
    /\ err = NoError

InitNaming ==
    /\ ParserIdle
    /\ GenIdle
    /\ ServeIdle
    /\ nameIn \in SeqsUpTo(NameChars, MaxNameLen)
    /\ camelOut = <<>>
    /\ pascalOut = <<>>
    /\ npc = {}

\* one call of toCamelCase(nameIn)
CallCamel ==
    /\ "camel" \notin npc
    /\ camelOut' = toCamelCase(nameIn)
    /\ npc' = npc \cup {"camel"}
    /\ UNCHANGED <<serveVars, parserVars, genVars, nameIn, pascalOut>>

\* one call of toPascalCase(nameIn)
CallPascal ==
    /\ "pascal" \notin npc
    /\ pascalOut' = toPascalCase(nameIn)
    /\ npc' = npc \cup {"pascal"}
    /\ UNCHANGED <<serveVars, parserVars, genVars, nameIn, camelOut>>

NextNaming == CallCamel \/ CallPascal

SpecNaming == InitNaming /\ [][NextNaming]_vars

-----------------------------------------------------------------------------
(* What the claims about the naming functions speak of.                    *)

BothReturned == npc = {"camel", "pascal"}

\* a lower-case identifier: lower-case letters, digits and underscores
IsLowerIdent(x) == \A k \in 1..Len(x) : x[k] \in {"a", "b", "1", "_"}

\* s with its first character lower-cased
LowerFirst(s) ==
    [k \in 1..Len(s) |->
        IF k = 1
        THEN (CASE s[k] = "A" -> "a" [] s[k] = "B" -> "b" [] OTHER -> s[k])
        ELSE s[k]]

LowerChar(c) == CASE c = "A" -> "a" [] c = "B" -> "b" [] OTHER -> c
UpperChar(c) == CASE c = "a" -> "A" [] c = "b" -> "B" [] OTHER -> c

\* the positions of x that hold no underscore, and the k-th of them
Kept(x) == {p \in 1..Len(x) : x[p] # "_"}
KeptAt(x, k) == CHOOSE p \in Kept(x) : Cardinality({q \in Kept(x) : q <= p}) = k

\* C11 as claimed: for every lower-case identifier, also one beginning with
\* an underscore or a digit, toPascalCase with its first character
\* lower-cased is toCamelCase.
C11_RoundTripAll ==
    (BothReturned /\ IsLowerIdent(nameIn)) => LowerFirst(pascalOut) = camelOut

\* C11 as the code has it: the same for every lower-case identifier that
\* does not begin with an underscore (one beginning with a digit included).
C11_RoundTrip ==
    (BothReturned /\ IsLowerIdent(nameIn) /\ (nameIn # <<>> => nameIn[1] # "_")) =>
        LowerFirst(pascalOut) = camelOut

\* an identifier beginning with a digit, with two segments
C11_Witness ==
    /\ BothReturned
    /\ nameIn = <<"1", "a", "_", "b">>
    /\ pascalOut = <<"1", "a", "B">>
    /\ camelOut = <<"1", "a", "B">>

\* C12 as claimed: toCamelCase lower-cases every character of the first
\* segment, capitalises the first character of each later segment, keeps
\* the other characters and drops the underscores.
C12_FirstSegmentLowered ==
    ("camel" \in npc) =>
        /\ Len(camelOut) = Cardinality(Kept(nameIn))
        /\ \A k \in 1..Len(camelOut) :
               LET p == KeptAt(nameIn, k)
               IN  camelOut[k] =
                       IF \A q \in 1..p : nameIn[q] # "_" THEN LowerChar(nameIn[p])
                       ELSE IF nameIn[p - 1] = "_" THEN UpperChar(nameIn[p])
                       ELSE nameIn[p]

\* C12 as the code has it: toCamelCase lower-cases the first character of
\* the input, capitalises every character that follows an underscore, keeps
\* every other character as it is and drops the underscores.
C12_FirstCharLowered ==
    ("camel" \in npc) =>
        /\ Len(camelOut) = Cardinality(Kept(nameIn))
        /\ \A k \in 1..Len(camelOut) :
               LET p == KeptAt(nameIn, k)
               IN  camelOut[k] =
                       IF p = 1 THEN LowerChar(nameIn[p])
                       ELSE IF nameIn[p - 1] = "_" THEN UpperChar(nameIn[p])
                       ELSE nameIn[p]

\* an upper-case letter inside the first segment stays, one at its head
\* does not
C12_Witness ==
    /\ "camel" \in npc
    /\ nameIn = <<"A", "A", "_", "b">>
    /\ camelOut = <<"a", "A", "B">>

\* x with every underscore that follows an underscore removed
CollapseRuns(x) ==
    LET keep == {p \in 1..Len(x) : ~(x[p] = "_" /\ p > 1 /\ x[p - 1] = "_")}
    IN  [k \in 1..Cardinality(keep) |->
            x[CHOOSE p \in keep : Cardinality({q \in keep : q <= p}) = k]]

\* C13: both functions return for every input, the empty string gives the
\* empty string, the result holds no underscore, and it is the result for
\* the input with each run of underscores collapsed to one.
C13_UnderscoreRuns ==
    /\ ("camel" \in npc =>
           /\ (nameIn = <<>> => camelOut = <<>>)
           /\ \A k \in 1..Len(camelOut) : camelOut[k] # "_"
           /\ camelOut = toCamelCase(CollapseRuns(nameIn)))
    /\ ("pascal" \in npc =>
           /\ (nameIn = <<>> => pascalOut = <<>>)
           /\ \A k \in 1..Len(pascalOut) : pascalOut[k] # "_"
           /\ pascalOut = toPascalCase(CollapseRuns(nameIn)))

\* a run of two underscores between two segments
C13_Witness ==
    /\ BothReturned
    /\ nameIn = <<"a", "_", "_", "b">>
    /\ CollapseRuns(nameIn) = <<"a", "_", "b">>
    /\ camelOut = <<"a", "B">>
    /\ pascalOut = <<"A", "B">>

-----------------------------------------------------------------------------
(* The generated dispatcher and serve loop, as the README shows them for   *)
(* the starter schema: Dispatch in README.md, Serve in the README with the *)
(* stream helpers.                                                         *)

\* languages the README shows both a dispatch routine and a serve loop for
ServeLangs == {"go", "ts", "python", "csharp", "java"}

\* oneof members the generated dispatcher has a branch for
KnownVariants == {"login_req", "login_res", "chat_msg"}

\* frames a stream can deliver: malformed bytes, or a GamePacket with no
\* member set, a known member, or a member added after generation
Packets ==
    {NoPacket}
    \cup {[decodes |-> TRUE, variant |-> v] :
             v \in KnownVariants \cup {"none", "future"}}

\* the generated dispatch routine ends with a failure the caller sees when
\* no branch matches: Go's default returns an error; the if / elif chains
\* of TypeScript and Python and the switches of C# and Java have no final
\* branch
HasUnknownBranch(lang) == lang = "go"

\* Dispatch / dispatch of README.md: how it ends and the handler methods
\* it invokes
Dispatch(lang, p) ==
    IF ~p.decodes
    THEN [result |-> "decode error", calls |-> <<>>]
    ELSE IF p.variant \in KnownVariants
    THEN [result |-> "ok", calls |-> <<p.variant>>]
    ELSE IF HasUnknownBranch(lang)
    THEN [result |-> "unknown packet type", calls |-> <<>>]
    ELSE [result |-> "ok", calls |-> <<>>]

\* the serve loop handles a failing read itself: Java's try block encloses
\* readPacket
CatchesReadFailure(lang) == lang = "java"

\* the serve loop handles a failing dispatch itself: Go tests the returned
\* error, Python, C# and Java catch the exception, TypeScript does neither
CatchesDispatchFailure(lang) == lang \in {"go", "python", "csharp", "java"}

InitServe ==
    /\ ParserIdle
    /\ GenIdle
    /\ NamingIdle
    /\ slang \in ServeLangs
    /\ spc = "read"
    /\ pkt = NoPacket
    /\ reads = 0
    /\ readFailures = 0
    /\ reported = 0
    /\ dres = "none"
    /\ dcalls = <<>>
    /\ sresult = "none"

\* the stream delivers a frame
ReadOk ==
    /\ spc = "read"
    /\ reads < MaxReads
    /\ reads' = reads + 1
    /\ pkt' \in Packets
    /\ spc' = "dispatch"
    /\ UNCHANGED <<parserVars, genVars, namingVars, slang, readFailures, reported,
                   dres, dcalls, sresult>>

\* the read fails and the failure leaves the loop
ReadFailsPropagated ==
    /\ spc = "read"
    /\ reads < MaxReads
    /\ ~CatchesReadFailure(slang)
    /\ reads' = reads + 1
    /\ readFailures' = readFailures + 1
    /\ spc' = "returned"
    /\ sresult' = "read error"
    /\ UNCHANGED <<parserVars, genVars, namingVars, slang, pkt, reported, dres,
                   dcalls>>

\* the read fails inside the loop's try block: the failure is printed and
\* the loop reads again
ReadFailsCaught ==
    /\ spc = "read"
    /\ reads < MaxReads
    /\ CatchesReadFailure(slang)
    /\ reads' = reads + 1
    /\ readFailures' = readFailures + 1
    /\ reported' = reported + 1
    /\ UNCHANGED <<parserVars, genVars, namingVars, slang, spc, pkt, dres, dcalls,
                   sresult>>

\* dispatch returns normally and the loop reads again
DispatchOk ==
    /\ spc = "dispatch"
    /\ Dispatch(slang, pkt).result = "ok"
    /\ dres' = "ok"
    /\ dcalls' = Dispatch(slang, pkt).calls
    /\ spc' = "read"
    /\ UNCHANGED <<parserVars, genVars, namingVars, slang, pkt, reads,
                   readFailures, reported, sresult>>

\* dispatch fails, the loop prints the failure and reads again
DispatchFailsReported ==
    /\ spc = "dispatch"
    /\ Dispatch(slang, pkt).result # "ok"
    /\ CatchesDispatchFailure(slang)
    /\ dres' = Dispatch(slang, pkt).result
    /\ dcalls' = Dispatch(slang, pkt).calls
    /\ reported' = reported + 1
    /\ spc' = "read"
    /\ UNCHANGED <<parserVars, genVars, namingVars, slang, pkt, reads,
                   readFailures, sresult>>

\* dispatch fails and the failure leaves the loop
DispatchFailsPropagated ==
    /\ spc = "dispatch"
    /\ Dispatch(slang, pkt).result # "ok"
    /\ ~CatchesDispatchFailure(slang)
    /\ dres' = Dispatch(slang, pkt).result
    /\ dcalls' = Dispatch(slang, pkt).calls
    /\ spc' = "returned"
    /\ sresult' = "dispatch error"
    /\ UNCHANGED <<parserVars, genVars, namingVars, slang, pkt, reads,
                   readFailures, reported>>

NextServe ==
    \/ ReadOk
    \/ ReadFailsPropagated
    \/ ReadFailsCaught
    \/ DispatchOk
    \/ DispatchFailsReported
    \/ DispatchFailsPropagated

SpecServe == InitServe /\ [][NextServe]_vars

-----------------------------------------------------------------------------
(* What the claims about the generated code speak of.                      *)

\* C14: in every language the loop ends only by a failed read, whose failure
\* is what the caller gets; a failed read always ends it; a failed dispatch
\* is reported and the loop is back at reading.
C14_ServeLoop ==
    /\ (spc = "returned" => sresult = "read error" /\ readFailures = 1)
    /\ (readFailures > 0 => spc = "returned" /\ sresult = "read error")
    /\ (spc = "read" /\ dres \notin {"none", "ok"} => reported > 0)

\* C15: in every language a frame that decodes with no known member set
\* ends dispatch with an unknown-variant failure that is not the decode
\* failure; dispatch never ends normally without a handler call, and when it
\* ends normally it made one call, for the populated member.
C15_UnknownVariant ==
    (dres # "none" /\ spc # "dispatch") =>
        /\ (pkt.decodes /\ pkt.variant \notin KnownVariants =>
               dres \notin {"ok", "decode error"})
        /\ (~pkt.decodes => dres = "decode error")
        /\ (dres = "ok" => dcalls = <<pkt.variant>>)
        /\ (dres # "ok" => dcalls = <<>>)

-----------------------------------------------------------------------------
(* What the claims about the protoc binding step speak of.                 *)

\* the tags protoc is run for
ProtocTags == {"go", "python", "csharp", "ts"}

\* the tags among the first k requested ones that protoc is run for, in
\* request order, and the set of them
ProtocSeq(k) ==
    LET pos == {i \in 1..k : languages[i] \in ProtocTags}
    IN  [n \in 1..Cardinality(pos) |->
            languages[CHOOSE i \in pos : Cardinality({j \in pos : j <= i}) = n]]
ProtocSet(k) == {languages[i] : i \in {j \in 1..k : languages[j] \in ProtocTags}}

InProtoc == pc \in {"protoc_mkdir", "protoc_loop"}
PastProtoc == withProtoc /\ pc \in {"parse", "emit", "done"}

C18_ProtocNonFatal ==
    /\ (~withProtoc =>
           /\ ~InProtoc
           /\ protocRuns = <<>>
           /\ bindings = {}
           /\ protocErr = NoError)
    /\ (InProtoc =>
           /\ withProtoc
           /\ apc = "call"
           /\ err = NoError
           /\ emitted = <<>>
           /\ out = <<>>)
    /\ (protocErr # NoError => PastProtoc)
    /\ (Finished => (err # NoError \/ Succeeded))
    /\ (Finished /\ Succeeded =>
           /\ Len(out) = Len(languages)
           /\ Len(emitted) = Cardinality(DeclaredPos))

\* GenerateProtoc failed at the first language and all three generators ran
C18_Witness ==
    /\ Finished
    /\ Succeeded
    /\ withProtoc
    /\ protocErr = "failed to generate protobuf code for ts"
    /\ languages = <<"ts", "kotlin", "go">>
    /\ protocRuns = <<"ts">>
    /\ Len(emitted) = 3

====
